---- MODULE Spec2Model ----
(***************************************************************************)
(* Model of package config (src/src/config/config.go): an INI-style        *)
(* configuration reader.  A Config owns a map from file path to file       *)
(* handle, a map from section name to *Section and one parse state.        *)
(* Parse_conf opens the files, parses them line by line and closes them;   *)
(* Get looks a key up.                                                     *)
(*                                                                         *)
(* Strings are sequences of one-character strings, so that TrimSpace,      *)
(* Index and slicing are computed as Go computes them.                     *)
(***************************************************************************)
EXTENDS Integers, Sequences, FiniteSets, TLC

\* ------------------------------------------------------------------------
\* Bounds of the model
\* ------------------------------------------------------------------------
\* Lines delivered by ReadLine over the life of one Config.
MaxLines == 4
\* Lines delivered by ReadLine when lookups are explored as well.
MaxLookupLines == 3
\* Calls of Parse_conf on one Config (the documented life cycle is a single
\* call).
MaxCalls == 1
\* Length of a line, and lines delivered by ReadLine, when every line over a
\* small alphabet is explored.
MaxKeyLineLen == 4
MaxKeyLines == 1

\* ------------------------------------------------------------------------
\* Strings
\* ------------------------------------------------------------------------
Q == "\""

\* unicode.IsSpace restricted to the characters the model uses.
IsSpace(c) == c \in {" ", "\t"}

\* Go slice expression s[lo:hi] (0-based, hi exclusive), for 0 <= lo <= hi <= len(s).
Slice(s, lo, hi) == SubSeq(s, lo + 1, hi)

\* (Faulty variant: nothing is trimmed.)
TrimSpace_none(s) == s
\* strings.TrimSpace
TrimSpace(s) ==
    LET idx == {i \in 1..Len(s) : ~IsSpace(s[i])}
    IN  IF idx = {} THEN <<>>
        ELSE LET lo == CHOOSE i \in idx : \A j \in idx : i <= j
                 hi == CHOOSE i \in idx : \A j \in idx : j <= i
             IN  SubSeq(s, lo, hi)

\* (Faulty variant: the position is counted from 1.)
Index_from_one(s, c) ==
    LET idx == {i \in 1..Len(s) : s[i] = c}
    IN  IF idx = {} THEN -1
        ELSE CHOOSE i \in idx : \A j \in idx : i <= j
\* strings.Index(s, c) for a one-character c: 0-based position of the first
\* occurrence, -1 if there is none.
Index(s, c) ==
    LET idx == {i \in 1..Len(s) : s[i] = c}
    IN  IF idx = {} THEN -1
        ELSE (CHOOSE i \in idx : \A j \in idx : i <= j) - 1

\* ------------------------------------------------------------------------
\* Errors
\* ------------------------------------------------------------------------
NoErr == [kind |-> "nil"]
ConfLineError(line, error) == [kind |-> "ConfLineError", line |-> line, error |-> error]
ConfFileError(fname, error) == [kind |-> "ConfFileError", fname |-> fname, error |-> error]
NoSuchSectionError(sec_name) == [kind |-> "NoSuchSectionError", sec_name |-> sec_name]
NoSuchKeyError(sec_name, key) ==
    [kind |-> "NoSuchKeyError", sec_name |-> sec_name, key |-> key]
\* *os.PathError of os.Open / File.Read
PathError(op, path) == [kind |-> "PathError", op |-> op, path |-> path]
\* Go runtime panic (index or slice bounds out of range)
RuntimePanic(msg) == [kind |-> "panic", msg |-> msg]

\* ------------------------------------------------------------------------
\* Sections.  A *Section is an index into heap; 0 is the nil pointer.
\* cfg = [sections : name -> pointer, heap : Seq(Section), pstate : PState]
\* ------------------------------------------------------------------------
Nil == 0

NewSection(name) == [name |-> name, fields |-> <<>>]

PState(in_sec, cur_sec) == [in_sec |-> in_sec, cur_sec |-> cur_sec]

\* Go map assignment m[k] = v.
MapSet(m, k, v) ==
    [x \in DOMAIN m \cup {k} |-> IF x = k THEN v ELSE m[x]]

\* Outcomes of _parse_line: normal return (true, nil), return (false, err),
\* or a runtime panic.
LineOk(cfg) == [res |-> "ok", err |-> NoErr, cfg |-> cfg]
\* (Faulty variant: an error return leaves no section current.)
LineErrLeavesSection(line, error, cfg) ==
    [res |-> "err", err |-> ConfLineError(line, error),
     cfg |-> [cfg EXCEPT !.pstate = PState(FALSE, Nil)]]
LineErr(line, error, cfg) == [res |-> "err", err |-> ConfLineError(line, error), cfg |-> cfg]
LinePanic(msg, cfg) == [res |-> "panic", err |-> RuntimePanic(msg), cfg |-> cfg]

\* Header branch after the empty-name check: look the section up, create
\* and register it when absent, make it current.
\* (Faulty variant: a new Section is registered even when the name exists.)
HeaderAlwaysNew(sec_name, cfg) ==
    LET heap2 == Append(cfg.heap, NewSection(sec_name))
    IN  [sections |-> MapSet(cfg.sections, sec_name, Len(heap2)),
         heap |-> heap2,
         pstate |-> PState(TRUE, Len(heap2))]

\* (Faulty variant: a section found by name does not become current.)
HeaderKeepsCurrent(sec_name, cfg) ==
    LET _in == sec_name \in DOMAIN cfg.sections
        heap2 == IF _in THEN cfg.heap ELSE Append(cfg.heap, NewSection(sec_name))
    IN  [sections |-> IF _in THEN cfg.sections
                      ELSE MapSet(cfg.sections, sec_name, Len(heap2)),
         heap |-> heap2,
         pstate |-> IF _in THEN PState(TRUE, cfg.pstate.cur_sec)
                    ELSE PState(TRUE, Len(heap2))]
\* (Faulty variant: a new Section becomes current, registered only when the
\* name is absent.)
HeaderUnregistered(sec_name, cfg) ==
    LET _in == sec_name \in DOMAIN cfg.sections
        heap2 == Append(cfg.heap, NewSection(sec_name))
    IN  [sections |-> IF _in THEN cfg.sections
                      ELSE MapSet(cfg.sections, sec_name, Len(heap2)),
         heap |-> heap2,
         pstate |-> PState(TRUE, Len(heap2))]
Header(sec_name, cfg) ==
    LET _in == sec_name \in DOMAIN cfg.sections
        heap2 == IF _in THEN cfg.heap ELSE Append(cfg.heap, NewSection(sec_name))
        pSection == IF _in THEN cfg.sections[sec_name] ELSE Len(heap2)
    IN  [sections |-> IF _in THEN cfg.sections
                      ELSE MapSet(cfg.sections, sec_name, pSection),
         heap |-> heap2,
         pstate |-> PState(TRUE, pSection)]

\* cur_sec.fields[key] = value
\* (Faulty variant: a key already set keeps its value.)
SetFieldKeepFirst(key, value, cfg) ==
    LET cur_sec == cfg.pstate.cur_sec
    IN  [cfg EXCEPT !.heap[cur_sec].fields =
            IF key \in DOMAIN @ THEN @ ELSE MapSet(@, key, value)]

SetField(key, value, cfg) ==
    LET cur_sec == cfg.pstate.cur_sec
    IN  [cfg EXCEPT !.heap[cur_sec].fields = MapSet(@, key, value)]

\* The key/value branch from the value on: value[0] is read whatever the
\* length of value, and the slice is taken whenever both ends are quotes.
KeyValue(line, key, rest, cfg) ==
    LET value == TrimSpace(rest)
    IN  IF Len(value) = 0
        THEN LinePanic("index out of range [0] with length 0", cfg)
        ELSE LET quoted == value[1] = Q /\ value[Len(value)] = Q
             IN  IF quoted /\ Len(value) - 1 < 1
                 THEN LinePanic("slice bounds out of range [1:0]", cfg)
                 ELSE LET value2 == IF quoted
                                    THEN Slice(value, 1, Len(value) - 1)
                                    ELSE value
                      IN  IF ~cfg.pstate.in_sec
                          THEN LineErr(line, "configuration line without section", cfg)
                          ELSE LineOk(SetField(key, value2, cfg))

\* (Faulty variant: only a missing "=" makes the line invalid.)
_parse_line_leading_eq(raw, cfg) ==
    IF Len(raw) > 0
    THEN LET line == TrimSpace(raw)
             line_len == Len(line)
         IN  IF line_len > 0
             THEN IF line[1] = "[" /\ line[line_len] = "]"
                  THEN LET sec_name == Slice(line, 1, line_len - 1)
                       IN  IF Len(sec_name) = 0
                           THEN LineErr(line, "section name cannot be empty", cfg)
                           ELSE LineOk(Header(sec_name, cfg))
                  ELSE LET first_equation_pos == Index(line, "=")
                       IN  IF first_equation_pos < 0
                           THEN LineErr(line, "invalid configuration line", cfg)
                           ELSE LET key == TrimSpace(Slice(line, 0, first_equation_pos))
                                IN  IF Len(key) = 0
                                    THEN LineErr(line, "key cannot be empty", cfg)
                                    ELSE KeyValue(line, key,
                                                  Slice(line, first_equation_pos + 1, line_len),
                                                  cfg)
             ELSE LineOk(cfg)
    ELSE LineOk(cfg)
_parse_line(raw, cfg) ==
    IF Len(raw) > 0
    THEN LET line == TrimSpace(raw)
             line_len == Len(line)
         IN  IF line_len > 0
             THEN IF line[1] = "[" /\ line[line_len] = "]"
                  THEN LET sec_name == Slice(line, 1, line_len - 1)
                       IN  IF Len(sec_name) = 0
                           THEN LineErr(line, "section name cannot be empty", cfg)
                           ELSE LineOk(Header(sec_name, cfg))
                  ELSE LET first_equation_pos == Index(line, "=")
                       IN  IF first_equation_pos <= 0
                           THEN LineErr(line, "invalid configuration line", cfg)
                           ELSE LET key == TrimSpace(Slice(line, 0, first_equation_pos))
                                IN  IF Len(key) = 0
                                    THEN LineErr(line, "key cannot be empty", cfg)
                                    ELSE KeyValue(line, key,
                                                  Slice(line, first_equation_pos + 1, line_len),
                                                  cfg)
             ELSE LineOk(cfg)
    ELSE LineOk(cfg)

\* ------------------------------------------------------------------------
\* Files.  An *os.File is an index into handles; 0 is the nil pointer.
\* ------------------------------------------------------------------------
Paths == {"A", "B"}

\* The lines a file may hold.
Lines ==
    { <<" ">>,
      <<"[", "s", "]">>,
      <<"[", " ", "]">>,
      <<" ", "[", "]", " ">>,
      <<"k", "=", "1">>,
      <<" ", "k", " ", "=", " ", "2", " ">>,
      <<"j", "=", Q, "a", Q, Q>>,
      <<"k", "=", Q>>,
      <<"k", " ", "=", " ">>,
      <<"k">>,
      <<" ", "=", "1">> }

\* Arguments of Get.
GetSections == { <<"s">>, <<"s", " ">> }
GetKeys == { <<"k">>, <<"k", " ">> }

VARIABLES
    files,       \* the paths handed to NewConfig, in the caller's order
    conf_files,  \* Config.conf_files : path -> *os.File
    handles,     \* the files opened so far
    sections,    \* Config.sections : name -> *Section
    heap,        \* the Section objects
    pstate,      \* Config._pstate
    pc,          \* "idle", "_open_files" or "_parse_file"
    calls,       \* number of Parse_conf calls started
    toVisit,     \* keys the running range loop has not yet produced
    cur,         \* the file _parse_file is reading
    result,      \* what the last Parse_conf returned
    processed,   \* history: the lines handed to _parse_line
    pre,         \* history: store and parse state when the call began
    openErr,     \* history: the path whose open failed in this call
    getResult    \* what the last Get returned

vars == <<files, conf_files, handles, sections, heap, pstate, pc, calls,
          toVisit, cur, result, processed, pre, openErr, getResult>>

NoFile == "none"
NoResult == [kind |-> "none"]
NoGet == [section |-> <<>>, key |-> <<>>, ret |-> [value |-> <<>>, err |-> NoResult]]
Success == [kind |-> "true"]

Cfg == [sections |-> sections, heap |-> heap, pstate |-> pstate]

Snapshot == [cfg |-> Cfg, n |-> Len(processed)]

\* The lists of paths NewConfig is given: none, one, one twice, two.  (The
\* list <<"B", "A">> is <<"A", "B">> with the names exchanged.)
FileLists == { <<>>, <<"A">>, <<"A", "A">>, <<"A", "B">> }

\* NewConfig(files): every path maps to nil, no section, parse state {false, nil}.
NewConfig(fs) ==
    [conf_files |-> [p \in { fs[i] : i \in 1..Len(fs) } |-> Nil],
     sections |-> <<>>,
     _pstate |-> PState(FALSE, Nil)]

Init ==
    /\ files \in FileLists
    /\ conf_files = NewConfig(files).conf_files
    /\ sections = NewConfig(files).sections
    /\ pstate = NewConfig(files)._pstate
    /\ handles = <<>>
    /\ heap = <<>>
    /\ pc = "idle"
    /\ calls = 0
    /\ toVisit = {}
    /\ cur = NoFile
    /\ result = NoResult
    /\ processed = <<>>
    /\ pre = Snapshot
    /\ openErr = NoFile
    /\ getResult = NoGet

\* (*os.File).Close
Close(f) == [f EXCEPT !.state = "closed", !.closeCalls = @ + 1]

\* finalize: Close on every value of conf_files (Close on nil does nothing).
\* (Faulty variant: nothing is closed.)
finalize_none(cf, hs) == hs

finalize(cf, hs) ==
    [h \in DOMAIN hs |-> IF \E p \in DOMAIN cf : cf[p] = h THEN Close(hs[h]) ELSE hs[h]]

\* One turn of the loop of _parse_file for a line ReadLine delivered with a
\* nil error: parse it, and return the line's error wrapped with the file
\* name when it fails.  ret tells how the loop goes on.
\* (Faulty variant: the loop goes on after a line's error.)
_parse_file_line_continue(fname, raw, cfg) ==
    LET r == _parse_line(raw, cfg)
    IN  [ret |-> IF r.res = "panic" THEN "panic" ELSE "continue",
         result |-> r.err, cfg |-> r.cfg, line |-> r]

_parse_file_line(fname, raw, cfg) ==
    LET r == _parse_line(raw, cfg)
    IN  CASE r.res = "ok" -> [ret |-> "continue", result |-> NoErr, cfg |-> r.cfg, line |-> r]
          [] r.res = "err" -> [ret |-> "return", result |-> ConfFileError(fname, r.err),
                               cfg |-> r.cfg, line |-> r]
          [] r.res = "panic" -> [ret |-> "panic", result |-> r.err, cfg |-> r.cfg, line |-> r]

\* Get(section, key)
\* (Faulty variant: names are compared after trimming.)
Get_trimmed(section, key, cfg) ==
    IF TrimSpace(section) \notin DOMAIN cfg.sections
    THEN [value |-> <<>>, err |-> NoSuchSectionError(section)]
    ELSE LET pSection == cfg.heap[cfg.sections[TrimSpace(section)]]
         IN  IF TrimSpace(key) \notin DOMAIN pSection.fields
             THEN [value |-> <<>>, err |-> NoSuchKeyError(section, key)]
             ELSE [value |-> pSection.fields[TrimSpace(key)], err |-> NoErr]

Get(section, key, cfg) ==
    IF section \notin DOMAIN cfg.sections
    THEN [value |-> <<>>, err |-> NoSuchSectionError(section)]
    ELSE LET pSection == cfg.heap[cfg.sections[section]]
         IN  IF key \notin DOMAIN pSection.fields
             THEN [value |-> <<>>, err |-> NoSuchKeyError(section, key)]
             ELSE [value |-> pSection.fields[key], err |-> NoErr]

\* ------------------------------------------------------------------------
\* Actions
\* ------------------------------------------------------------------------
\* Parse_conf returns res: the deferred finalize runs first (also when the
\* call panics).
Return(res, cf, hs) ==
    /\ handles' = finalize(cf, hs)
    /\ result' = res
    /\ pc' = "idle"
    /\ toVisit' = {}
    /\ cur' = NoFile

\* _parse_file returned true: the range loop of Parse_conf goes on, or
\* Parse_conf returns true when no file is left.
FileDone(left) ==
    IF left = {}
    THEN Return(Success, conf_files, handles)
    ELSE /\ cur' = NoFile
         /\ toVisit' = left
         /\ UNCHANGED <<handles, result, pc>>

\* Parse_conf is called.  With no file at all both loops are empty.
Parse_conf ==
    /\ pc = "idle"
    /\ calls < MaxCalls
    /\ calls' = calls + 1
    /\ pre' = Snapshot
    /\ openErr' = NoFile
    /\ getResult' = NoGet
    /\ IF DOMAIN conf_files = {}
       THEN Return(Success, conf_files, handles)
       ELSE /\ pc' = "_open_files"
            /\ toVisit' = DOMAIN conf_files
            /\ result' = NoResult
            /\ UNCHANGED <<handles, cur>>
    /\ UNCHANGED <<files, conf_files, sections, heap, pstate, processed>>

\* _open_files went through every key: Parse_conf starts its own range loop.
OpenDone(left) ==
    IF left = {}
    THEN /\ pc' = "_parse_file"
         /\ toVisit' = DOMAIN conf_files
    ELSE /\ toVisit' = left
         /\ UNCHANGED pc

\* _open_files, a key whose file is still nil and os.Open succeeds, or a
\* key whose file is already set (nothing to do).
OpenNext(fpath) ==
    /\ pc = "_open_files"
    /\ fpath \in toVisit
    /\ IF conf_files[fpath] = Nil
       THEN /\ handles' = Append(handles, [path |-> fpath, openedIn |-> calls,
                                          state |-> "open", closeCalls |-> 0])
            /\ conf_files' = [conf_files EXCEPT ![fpath] = Len(handles) + 1]
       ELSE UNCHANGED <<handles, conf_files>>
    /\ OpenDone(toVisit \ {fpath})
    /\ UNCHANGED <<files, sections, heap, pstate, calls, cur, result, processed,
                   pre, openErr, getResult>>

\* _open_files, os.Open fails: _open_files returns false and so does Parse_conf.
\* (Faulty variant: Parse_conf ignores the failure and parses.)
OpenFailGoesOn(fpath) ==
    /\ pc = "_open_files"
    /\ fpath \in toVisit
    /\ conf_files[fpath] = Nil
    /\ openErr' = fpath
    /\ pc' = "_parse_file"
    /\ toVisit' = DOMAIN conf_files
    /\ UNCHANGED <<files, conf_files, handles, sections, heap, pstate, calls, cur,
                   result, processed, pre, getResult>>

OpenFail(fpath) ==
    /\ pc = "_open_files"
    /\ fpath \in toVisit
    /\ conf_files[fpath] = Nil
    /\ openErr' = fpath
    /\ Return(PathError("open", fpath), conf_files, handles)
    /\ UNCHANGED <<files, conf_files, sections, heap, pstate, calls, processed,
                   pre, getResult>>

\* (Faulty variant: the parse state is reset when a file is begun.)
RangeNextResetsState(fname) ==
    /\ pc = "_parse_file"
    /\ cur = NoFile
    /\ fname \in toVisit
    /\ IF conf_files[fname] = Nil
       THEN FileDone(toVisit \ {fname}) /\ UNCHANGED pstate
       ELSE /\ cur' = fname
            /\ toVisit' = toVisit \ {fname}
            /\ pstate' = PState(FALSE, Nil)
            /\ UNCHANGED <<handles, result, pc>>
    /\ UNCHANGED <<files, conf_files, sections, heap, calls, processed,
                   pre, openErr, getResult>>
\* The range loop of Parse_conf produces the next key, in the order the map
\* iteration happens to give.  _parse_file does nothing for a nil file.
RangeNext(fname) ==
    /\ pc = "_parse_file"
    /\ cur = NoFile
    /\ fname \in toVisit
    /\ IF conf_files[fname] = Nil
       THEN FileDone(toVisit \ {fname})
       ELSE /\ cur' = fname
            /\ toVisit' = toVisit \ {fname}
            /\ UNCHANGED <<handles, result, pc>>
    /\ UNCHANGED <<files, conf_files, sections, heap, pstate, calls, processed,
                   pre, openErr, getResult>>

\* ReadLine delivers a line and a nil error.
ReadLine(raw) ==
    /\ pc = "_parse_file"
    /\ cur # NoFile
    /\ handles[conf_files[cur]].state = "open"
    /\ Len(processed) < MaxLines
    /\ LET step == _parse_file_line(cur, raw, Cfg)
       IN  /\ sections' = step.cfg.sections
           /\ heap' = step.cfg.heap
           /\ pstate' = step.cfg.pstate
           /\ processed' = Append(processed,
                  [file |-> cur, line |-> raw, call |-> calls,
                   res |-> step.line.res, err |-> step.line.err])
           /\ IF step.ret = "continue"
              THEN UNCHANGED <<handles, result, pc, toVisit, cur>>
              ELSE Return(step.result, conf_files, handles)
    /\ UNCHANGED <<files, conf_files, calls, pre, openErr, getResult>>

\* ReadLine delivers no line and io.EOF: the empty line is handed to
\* _parse_line, which does nothing, and the loop ends.
ReadEOF ==
    /\ pc = "_parse_file"
    /\ cur # NoFile
    /\ handles[conf_files[cur]].state = "open"
    /\ _parse_line(<<>>, Cfg).res = "ok"
    /\ FileDone(toVisit)
    /\ UNCHANGED <<files, conf_files, sections, heap, pstate, calls, processed,
                   pre, openErr, getResult>>

\* ReadLine delivers another error (always so on a file closed by an earlier
\* call): _parse_file returns it.
ReadError ==
    /\ pc = "_parse_file"
    /\ cur # NoFile
    /\ Return(PathError("read", cur), conf_files, handles)
    /\ UNCHANGED <<files, conf_files, sections, heap, pstate, calls, processed,
                   pre, openErr, getResult>>

\* (Faulty variant: a lookup registers the section it does not find.)
GetCallRegisters(section, key) ==
    /\ pc = "idle"
    /\ getResult' = [section |-> section, key |-> key, ret |-> Get(section, key, Cfg)]
    /\ sections' = Header(section, Cfg).sections
    /\ heap' = Header(section, Cfg).heap
    /\ UNCHANGED <<files, conf_files, handles, pstate, pc, calls,
                   toVisit, cur, result, processed, pre, openErr>>
\* A caller looks a key up between calls of Parse_conf.
GetCall(section, key) ==
    /\ pc = "idle"
    /\ getResult' = [section |-> section, key |-> key, ret |-> Get(section, key, Cfg)]
    /\ UNCHANGED <<files, conf_files, handles, sections, heap, pstate, pc, calls,
                   toVisit, cur, result, processed, pre, openErr>>

Next ==
    \/ Parse_conf
    \/ \E fpath \in Paths : OpenNext(fpath) \/ OpenFail(fpath)
    \/ \E fname \in Paths : RangeNext(fname)
    \/ \E raw \in Lines : ReadLine(raw)
    \/ ReadEOF
    \/ ReadError

Spec == Init /\ [][Next]_vars

\* The same program with lookups between the calls, on shorter files.
LookupReadLine(raw) ==
    /\ Len(processed) < MaxLookupLines
    /\ ReadLine(raw)

LookupNext ==
    \/ Parse_conf
    \/ \E fpath \in Paths : OpenNext(fpath) \/ OpenFail(fpath)
    \/ \E fname \in Paths : RangeNext(fname)
    \/ \E raw \in Lines : LookupReadLine(raw)
    \/ ReadEOF
    \/ ReadError
    \/ \E section \in GetSections, key \in GetKeys : GetCall(section, key)

LookupSpec == Init /\ [][LookupNext]_vars

\* The same program reading every line of at most MaxKeyLineLen characters
\* over KeyChars, at most MaxKeyLines of them.
KeyChars == {" ", "=", "k"}

KeyLines == UNION { [1..n -> KeyChars] : n \in 0..MaxKeyLineLen }

KeyReadLine(raw) ==
    /\ Len(processed) < MaxKeyLines
    /\ ReadLine(raw)

KeyNext ==
    \/ Parse_conf
    \/ \E fpath \in Paths : OpenNext(fpath) \/ OpenFail(fpath)
    \/ \E fname \in Paths : RangeNext(fname)
    \/ \E raw \in KeyLines : KeyReadLine(raw)
    \/ ReadEOF
    \/ ReadError

KeySpec == Init /\ [][KeyNext]_vars

\* ------------------------------------------------------------------------
\* Vocabulary of the properties: what a line is, read off its text alone
\* ------------------------------------------------------------------------
IsBlankLine(l) == TrimSpace(l) = <<>>

IsHeaderLine(l) ==
    LET t == TrimSpace(l)
    IN  Len(t) >= 2 /\ t[1] = "[" /\ t[Len(t)] = "]"

\* A key/value line: a non-blank line that is not a section header.
IsKeyValueLine(l) == ~IsBlankLine(l) /\ ~IsHeaderLine(l)

HeaderName(l) == LET t == TrimSpace(l) IN SubSeq(t, 2, Len(t) - 1)

\* Key and trimmed value of a key/value line that has a "=" after its
\* first character.
HasKey(l) == IsKeyValueLine(l) /\ Index(TrimSpace(l), "=") > 0
KeyOf(l) == LET t == TrimSpace(l) IN TrimSpace(SubSeq(t, 1, Index(t, "=")))
TrimmedValueOf(l) == LET t == TrimSpace(l) IN TrimSpace(SubSeq(t, Index(t, "=") + 2, Len(t)))

\* The value a key/value line assigns: one enclosing pair of quotes removed.
Unquoted(v) ==
    IF Len(v) >= 2 /\ v[1] = Q /\ v[Len(v)] = Q THEN SubSeq(v, 2, Len(v) - 1) ELSE v
ValueOf(l) == Unquoted(TrimmedValueOf(l))

\* A key/value line that assigns a value: it has a key, and a value that is
\* neither empty nor a lone quote.
AssignsValue(l) == HasKey(l) /\ TrimmedValueOf(l) \notin { <<>>, <<Q>> }

\* What each line of Lines is, computed once.
LineFacts ==
    [l \in Lines |->
        [blank |-> IsBlankLine(l),
         header |-> IsHeaderLine(l),
         name |-> IF IsHeaderLine(l) THEN HeaderName(l) ELSE <<>>,
         keyValue |-> IsKeyValueLine(l),
         hasKey |-> HasKey(l),
         assigns |-> AssignsValue(l),
         key |-> IF HasKey(l) THEN KeyOf(l) ELSE <<>>,
         trimmedValue |-> IF HasKey(l) THEN TrimmedValueOf(l) ELSE <<>>,
         value |-> IF HasKey(l) THEN ValueOf(l) ELSE <<>>,
         trimmed |-> TrimSpace(l)]]

Log == 1..Len(processed)

\* What entry i of the history is.
Fact(i) == LineFacts[processed[i].line]

\* The header in force at entry i of the history: the last accepted header
\* before it (0 when there is none), and the section it names.
HdrIdx(i) ==
    LET hs == { j \in 1..(i - 1) : Fact(j).header /\ processed[j].res = "ok" }
    IN  IF hs = {} THEN 0 ELSE CHOOSE j \in hs : \A m \in hs : m <= j
SecAt(i) == Fact(HdrIdx(i)).name

\* Entry i is an accepted key/value line: it assigned its key in SecAt(i).
Assigned(i) == Fact(i).keyValue /\ processed[i].res = "ok"

\* Entry i is the last assignment to its key in its section.
LastAssignment(i) ==
    /\ Assigned(i)
    /\ \A j \in Log : (j > i /\ Assigned(j)) =>
            ~(Fact(j).key = Fact(i).key /\ SecAt(j) = SecAt(i))

Hit(value) == [value |-> value, err |-> NoErr]

Returned == pc = "idle" /\ calls > 0
Succeeded == Returned /\ result = Success

\* ------------------------------------------------------------------------
\* C1.  A key/value line processed before any header has been processed
\* makes Parse_conf return failure with an error naming the file and the
\* line, and adds no key to any section.
\* ------------------------------------------------------------------------
C1_OrphanLineFails ==
    \A i \in Log :
        (/\ Fact(i).keyValue
         /\ \A j \in 1..(i - 1) : ~Fact(j).header)
        => /\ processed[i].res = "err"
           /\ (i = Len(processed) /\ processed[i].call = calls) =>
                 /\ pc = "idle"
                 /\ result.kind = "ConfFileError"
                 /\ result.fname = processed[i].file
                 /\ result.error.line = Fact(i).trimmed
           /\ \A h \in DOMAIN heap : DOMAIN heap[h].fields = {}

\* ------------------------------------------------------------------------
\* C2.  Files are parsed in the order their paths were given to NewConfig:
\* within a call no line of an earlier-listed file is processed after a line
\* of a later-listed one, so a key both files assign in the same section ends
\* with the value of the later-listed file.
\* ------------------------------------------------------------------------
PosInFiles(f) == CHOOSE n \in 1..Len(files) : files[n] = f /\ \A m \in 1..(n - 1) : files[m] # f

C2_FilesInSuppliedOrder ==
    /\ \A i, j \in Log :
          (i < j /\ processed[i].call = processed[j].call)
          => PosInFiles(processed[i].file) <= PosInFiles(processed[j].file)
    /\ Succeeded =>
          \A i, j \in Log :
             (/\ Assigned(i) /\ Assigned(j)
              /\ SecAt(i) = SecAt(j)
              /\ Fact(i).key = Fact(j).key
              /\ PosInFiles(processed[i].file) < PosInFiles(processed[j].file)
              /\ \A m \in Log : (Assigned(m) /\ processed[m].file = processed[j].file) => m <= j)
             => Get(SecAt(j), Fact(j).key, Cfg) = Hit(Fact(j).value)

\* ------------------------------------------------------------------------
\* C3.  Last write wins: after a successful Parse_conf, Get of a section and
\* key some accepted key/value line assigned returns the value of the last
\* such line processed, and the lines that assign a key again are accepted.
\* ------------------------------------------------------------------------
C3_LastWriteWins ==
    Succeeded =>
        /\ \A i \in Log : LastAssignment(i) =>
               Get(SecAt(i), Fact(i).key, Cfg) = Hit(Fact(i).value)
        /\ \A i \in Log : processed[i].call = calls => processed[i].res = "ok"

C3_Witness ==
    /\ Succeeded
    /\ \E i, j \in Log :
          /\ i < j /\ Assigned(i) /\ LastAssignment(j)
          /\ SecAt(i) = SecAt(j)
          /\ Fact(i).key = Fact(j).key
          /\ Fact(i).value # Fact(j).value

\* ------------------------------------------------------------------------
\* C4.  Whenever Parse_conf has returned, on whichever path, every file
\* this call opened is closed, and Close was called on it exactly once.
\* ------------------------------------------------------------------------
C4_HandlesClosedOnce ==
    Returned =>
        \A h \in DOMAIN handles :
            handles[h].openedIn = calls
            => handles[h].state = "closed" /\ handles[h].closeCalls = 1

\* An open failed after another file had been opened.
C4_Witness ==
    /\ Returned
    /\ result.kind = "PathError" /\ result.op = "open"
    /\ \E h \in DOMAIN handles : handles[h].openedIn = calls

\* ------------------------------------------------------------------------
\* C5.  If an open fails, Parse_conf returns that I/O error and parses no
\* line: store and parse state are as they were when the call began, so
\* every Get answers as it would have before.
\* ------------------------------------------------------------------------
C5_OpenFailureParsesNothing ==
    (Returned /\ openErr # NoFile) =>
        /\ result = PathError("open", openErr)
        /\ Cfg = pre.cfg
        /\ Len(processed) = pre.n
        /\ \A section \in GetSections, key \in GetKeys :
              Get(section, key, Cfg) = Get(section, key, pre.cfg)

\* The open of the second file failed, with the first one already open.
C5_Witness ==
    /\ Returned /\ openErr # NoFile
    /\ \E p \in DOMAIN conf_files : conf_files[p] # Nil
    /\ \E p \in DOMAIN conf_files : conf_files[p] = Nil

\* ------------------------------------------------------------------------
\* C6.  Fail-fast.  Once _parse_line has returned an error for a line, the
\* call processes no further line and store and parse state never change
\* again; Parse_conf returns a ConfFileError naming the file of that line,
\* wrapping a ConfLineError with the cause and with the text of the line
\* as trimmed of leading and trailing whitespace.
\* ------------------------------------------------------------------------
\* Why a line is refused, read off the line and the history.
CauseOf(i) ==
    IF Fact(i).header THEN "section name cannot be empty"
    ELSE IF ~Fact(i).hasKey THEN "invalid configuration line"
    ELSE "configuration line without section"

LastOfCall(i) == \A j \in Log : j > i => processed[j].call # processed[i].call

FailFastWith(text) ==
    \A i \in Log : processed[i].res = "err" =>
        /\ LastOfCall(i)
        /\ processed[i].call = calls =>
              /\ pc = "idle"
              /\ result = ConfFileError(processed[i].file,
                                         ConfLineError(text[processed[i].line], CauseOf(i)))

SomeLineFailed == \E i \in Log : processed[i].res = "err"

Trimmed == [l \in Lines |-> TrimSpace(l)]

C6_FailFastTrimmed ==
    /\ [](FailFastWith(Trimmed))
    /\ [][SomeLineFailed' => UNCHANGED <<sections, heap, pstate>>]_vars

\* The property with the text of the line as read, untrimmed.
AsRead == [l \in Lines |-> l]

C6_FailFastRawText == FailFastWith(AsRead)

\* A line of the first file parsed failed after a section had been
\* created; the other file was never read.
C6_Witness ==
    /\ Returned
    /\ result.kind = "ConfFileError"
    /\ Cardinality(DOMAIN conf_files) = 2
    /\ Len(processed) >= 2
    /\ \A i \in Log : processed[i].file = result.fname
    /\ result.error.line # processed[Len(processed)].line

\* ------------------------------------------------------------------------
\* C7.  Cross-file continuation: when two files each hold a header for the
\* same section followed by key/value lines with distinct keys, the lines
\* are accepted and after a successful Parse_conf both keys are found, with
\* the values assigned, in the one section of that name.
\* ------------------------------------------------------------------------
\* Entry i assigns a value under a header of its own file.
UnderOwnHeader(i) ==
    /\ Fact(i).assigns
    /\ HdrIdx(i) # 0
    /\ processed[HdrIdx(i)].file = processed[i].file

\* Entries i and j assign distinct keys under headers of their own files
\* that name the same section.
CrossFilePair(i, j) ==
    /\ processed[i].file # processed[j].file
    /\ UnderOwnHeader(i) /\ UnderOwnHeader(j)
    /\ SecAt(i) = SecAt(j)
    /\ Fact(i).key # Fact(j).key

C7_CrossFileContinuation ==
    \A i \in Log : UnderOwnHeader(i) =>
        \A j \in Log : CrossFilePair(i, j) =>
            /\ processed[i].res = "ok" /\ processed[j].res = "ok"
            /\ Cardinality({ h \in DOMAIN heap : heap[h].name = SecAt(i) }) = 1
            /\ (Succeeded /\ LastAssignment(i) /\ LastAssignment(j)) =>
                  /\ Get(SecAt(i), Fact(i).key, Cfg)
                        = Hit(Fact(i).value)
                  /\ Get(SecAt(j), Fact(j).key, Cfg)
                        = Hit(Fact(j).value)

C7_Witness ==
    /\ Succeeded
    /\ \E i, j \in Log : CrossFilePair(i, j) /\ LastAssignment(i) /\ LastAssignment(j)

\* ------------------------------------------------------------------------
\* C8.  Quote stripping.  A key/value line processed in an active section
\* is accepted and stores, for a trimmed value of length at least 2 that
\* begins and ends with a double quote, that value without its first and
\* last character, and for a trimmed value not enclosed in double quotes the
\* trimmed value unchanged.  (A lone quote is left to C9.)
\* ------------------------------------------------------------------------
\* The line just processed, when it is a key/value line with a key, met in
\* an active section.
JustProcessedInSection(l) ==
    /\ Len(processed) > 0
    /\ processed[Len(processed)].line = l
    /\ HasKey(l)
    /\ HdrIdx(Len(processed)) # 0

Stored(l, value) ==
    /\ processed[Len(processed)].res = "ok"
    /\ pstate.cur_sec # Nil
    /\ KeyOf(l) \in DOMAIN heap[pstate.cur_sec].fields
    /\ heap[pstate.cur_sec].fields[KeyOf(l)] = value

C8_QuoteStripping ==
    \A l \in Lines :
        (JustProcessedInSection(l) /\ TrimmedValueOf(l) # <<Q>>) =>
            LET v == TrimmedValueOf(l)
            IN  IF Len(v) >= 2 /\ v[1] = Q /\ v[Len(v)] = Q
                THEN Stored(l, SubSeq(v, 2, Len(v) - 1))
                ELSE Stored(l, v)

\* ------------------------------------------------------------------------
\* C9.  A key/value line in an active section whose trimmed value is the
\* single character " is accepted, and that one-character string is stored.
\* ------------------------------------------------------------------------
C9_LoneQuoteKept ==
    \A l \in Lines :
        (JustProcessedInSection(l) /\ TrimmedValueOf(l) = <<Q>>) => Stored(l, <<Q>>)

\* ------------------------------------------------------------------------
\* C10.  Lookup misses.  Get(s, k) returns NoSuchSectionError naming s
\* exactly when the store has no section named s, NoSuchKeyError naming s
\* and k exactly when it has the section but the section has no key k, and
\* otherwise the stored value and no error; names match by equality only.
\* ------------------------------------------------------------------------
C10_LookupMisses ==
    getResult # NoGet =>
        LET s == getResult.section
            k == getResult.key
            r == getResult.ret
            hasSection == \E h \in DOMAIN heap :
                             /\ heap[h].name = s
                             /\ \E n \in DOMAIN sections : n = s /\ sections[n] = h
            hasKey == \E h \in DOMAIN heap :
                         /\ heap[h].name = s
                         /\ \E n \in DOMAIN sections : n = s /\ sections[n] = h
                         /\ \E f \in DOMAIN heap[h].fields : f = k
        IN  /\ (r.err = NoSuchSectionError(s)) <=> ~hasSection
            /\ (r.err = NoSuchKeyError(s, k)) <=> (hasSection /\ ~hasKey)
            /\ (r.err = NoErr) <=> hasKey
            /\ hasKey => r.value = heap[sections[s]].fields[k]
            /\ r.err.kind \in { "NoSuchSectionError", "NoSuchKeyError", "nil" }

\* A section "s" exists and the lookup of "s " (with a trailing blank)
\* misses it.
C10_Witness ==
    /\ getResult # NoGet
    /\ getResult.section = <<"s", " ">>
    /\ <<"s">> \in DOMAIN sections
    /\ getResult.ret.err.kind = "NoSuchSectionError"

\* ------------------------------------------------------------------------
\* C11.  Blank lines are no-ops: in every state of the parser, with or
\* without an active section, _parse_line on an empty or whitespace-only
\* line returns success and leaves the section store, every section's fields
\* and the parse state as they are; no blank line read by ReadLine fails.
\* ------------------------------------------------------------------------
BlankLines == { <<>>, <<" ">>, <<"\t">>, <<" ", "\t", " ">> }

C11_BlankLinesAreNoOps ==
    /\ \A b \in BlankLines : _parse_line(b, Cfg) = LineOk(Cfg)
    /\ \A i \in Log : processed[i].line \in BlankLines => processed[i].res = "ok"

\* The last line read was a blank line, in an active section that holds a
\* key.
C11_Witness ==
    /\ Len(processed) > 0
    /\ processed[Len(processed)].line \in BlankLines
    /\ HdrIdx(Len(processed)) # 0
    /\ pstate.in_sec
    /\ DOMAIN heap[pstate.cur_sec].fields # {}

\* ------------------------------------------------------------------------
\* C12.  Header processing is get-or-create and idempotent.  In every state
\* of the parser, _parse_line on a header [name] with a non-empty name
\* succeeds and makes the section registered under that name the current
\* one; a section that exists is reused, the store and every section's
\* fields staying as they are, and otherwise exactly one section without
\* fields is added; processing the header again changes nothing more.
\* ------------------------------------------------------------------------
\* Header lines and the name between their brackets.
HeaderLines ==
    { [line |-> <<"[", "s", "]">>, name |-> <<"s">>],
      [line |-> <<"[", " ", "]">>, name |-> <<" ">>],
      [line |-> <<" ", "[", "t", "]", "\t">>, name |-> <<"t">>] }

C12_HeaderGetOrCreate ==
    \A h \in HeaderLines :
        LET r == _parse_line(h.line, Cfg)
            c == r.cfg
        IN  /\ r.res = "ok"
            /\ h.name \in DOMAIN c.sections
            /\ c.pstate = PState(TRUE, c.sections[h.name])
            /\ c.heap[c.sections[h.name]].name = h.name
            /\ IF h.name \in DOMAIN sections
               THEN c.sections = sections /\ c.heap = heap
               ELSE /\ DOMAIN c.sections = DOMAIN sections \cup {h.name}
                    /\ Cardinality(DOMAIN c.sections) = Cardinality(DOMAIN sections) + 1
                    /\ \A n \in DOMAIN sections : c.sections[n] = sections[n]
                    /\ c.heap = Append(heap, [name |-> h.name, fields |-> <<>>])
            /\ _parse_line(h.line, c) = r

\* A header was read again after a key was stored under it: there is still
\* one section, current, with its key.
C12_Witness ==
    /\ Cardinality(DOMAIN sections) = 1
    /\ Len(heap) = 1
    /\ \E i, j \in Log :
          /\ i < j /\ j = Len(processed)
          /\ Fact(i).header /\ Fact(j).header
          /\ Fact(i).name = Fact(j).name
          /\ processed[i].res = "ok" /\ processed[j].res = "ok"
          /\ pstate.cur_sec = sections[Fact(j).name]
          /\ DOMAIN heap[pstate.cur_sec].fields # {}

\* ------------------------------------------------------------------------
\* C13.  In every reachable state of the store, every section name and
\* every key stored in a section is non-empty after trimming whitespace.
\* ------------------------------------------------------------------------
C13_NamesAndKeysNotBlank ==
    /\ \A n \in DOMAIN sections : TrimSpace(n) # <<>>
    /\ \A h \in DOMAIN heap :
          /\ TrimSpace(heap[h].name) # <<>>
          /\ \A k \in DOMAIN heap[h].fields : TrimSpace(k) # <<>>

\* The part of C13 about keys alone.
C13_KeysNotBlank ==
    \A h \in DOMAIN heap : \A k \in DOMAIN heap[h].fields : TrimSpace(k) # <<>>

\* ------------------------------------------------------------------------
\* C14.  The parse state belongs to the Config, not to a file: it is never
\* reset between files.  At every moment the current section is the one
\* named by the last accepted header, whatever file that header was in, and
\* a line assigning a value that is read in a later-parsed file before any
\* header of that file is accepted and stored into the section that was
\* current at the end of the file parsed before.  (Stated of the line just
\* read; every line of the history was the line just read in an earlier
\* state.)
\* ------------------------------------------------------------------------
\* Entry i assigns a value, and the header in force is in another file.
ContinuesEarlierFile(i) ==
    /\ Fact(i).assigns
    /\ HdrIdx(i) # 0
    /\ processed[HdrIdx(i)].file # processed[i].file

C14_ParseStatePerConfig ==
    LET n == Len(processed)
        h == HdrIdx(n + 1)
    IN  /\ h # 0 =>
              /\ pstate.in_sec
              /\ Fact(h).name \in DOMAIN sections
              /\ pstate.cur_sec = sections[Fact(h).name]
        /\ (n > 0 /\ ContinuesEarlierFile(n)) =>
              /\ processed[n].res = "ok"
              /\ Fact(n).key \in DOMAIN heap[pstate.cur_sec].fields
              /\ heap[pstate.cur_sec].fields[Fact(n).key] = Fact(n).value
              /\ heap[pstate.cur_sec].name = Fact(h).name

\* Parse_conf succeeded, and the last line read assigned a value under a
\* header of the other file.
C14_Witness ==
    /\ Succeeded
    /\ Cardinality(DOMAIN conf_files) = 2
    /\ Len(processed) > 0
    /\ ContinuesEarlierFile(Len(processed))
    /\ processed[Len(processed)].res = "ok"

\* ------------------------------------------------------------------------
\* C15.  A non-blank line that is not a header and has no "=", or has "="
\* as its first character, fails with the invalid-line error and changes
\* neither the store nor the parse state, in every state of the parser:
\* also when no section is active the error is the invalid-line error, not
\* the line-outside-section error.
\* ------------------------------------------------------------------------
\* Such lines, and their text without the surrounding whitespace.
InvalidLines ==
    { [line |-> <<"k">>, text |-> <<"k">>],
      [line |-> <<" ", "=", "1">>, text |-> <<"=", "1">>],
      [line |-> <<"=">>, text |-> <<"=">>],
      [line |-> <<"\t", "k", " ", "1", " ">>, text |-> <<"k", " ", "1">>] }

C15_InvalidLineFirst ==
    /\ \A l \in InvalidLines :
          _parse_line(l.line, Cfg) = LineErr(l.text, "invalid configuration line", Cfg)
    /\ \A i \in Log : \A l \in InvalidLines :
          processed[i].line = l.line =>
              /\ processed[i].err = ConfLineError(l.text, "invalid configuration line")
              /\ (Returned /\ processed[i].call = calls) =>
                    result = ConfFileError(processed[i].file, processed[i].err)

\* Parse_conf returned the invalid-line error for a line read before any
\* header, and for a line read in an active section.
InvalidLineReturned(inSection) ==
    /\ Returned
    /\ Len(processed) > 0
    /\ \E l \in InvalidLines : processed[Len(processed)].line = l.line
    /\ result.kind = "ConfFileError"
    /\ result.error.error = "invalid configuration line"
    /\ pstate.in_sec = inSection

C15_Witness == InvalidLineReturned(FALSE)

\* ------------------------------------------------------------------------
\* C16.  A header line whose brackets enclose nothing, with or without
\* whitespace around it, fails with the empty-section-name error, creates
\* no section and leaves the parse state unchanged: a section that was
\* current stays current and in_sec keeps its value.
\* ------------------------------------------------------------------------
EmptyHeaderLines == { <<"[", "]">>, <<" ", "[", "]", " ">>, <<"\t", "[", "]">> }

EmptyNameError == ConfLineError(<<"[", "]">>, "section name cannot be empty")

C16_EmptyHeaderRejected ==
    /\ \A l \in EmptyHeaderLines :
          LET r == _parse_line(l, Cfg)
          IN  /\ r.res = "err"
              /\ r.err = EmptyNameError
              /\ r.cfg.sections = sections
              /\ r.cfg.heap = heap
              /\ r.cfg.pstate = pstate
    /\ <<>> \notin DOMAIN sections
    /\ \A h \in DOMAIN heap : heap[h].name # <<>>
    /\ \A i \in Log : processed[i].line \in EmptyHeaderLines =>
          /\ processed[i].err = EmptyNameError
          /\ (i = Len(processed) /\ HdrIdx(i) # 0) =>
                /\ pstate.in_sec
                /\ pstate.cur_sec = sections[SecAt(i)]
          /\ (i = Len(processed) /\ HdrIdx(i) = 0) => pstate = PState(FALSE, Nil)

\* Parse_conf returned the empty-section-name error for a line read in an
\* active section that holds a key; that section is still current.
C16_Witness ==
    /\ Returned
    /\ Len(processed) > 0
    /\ processed[Len(processed)].line \in EmptyHeaderLines
    /\ result = ConfFileError(processed[Len(processed)].file, EmptyNameError)
    /\ pstate.in_sec
    /\ DOMAIN heap[pstate.cur_sec].fields # {}

\* ------------------------------------------------------------------------
\* C17.  The section store only grows during parsing and does not change
\* afterwards.  No step removes a section or a key of a section, whether a
\* line is accepted, fails, or Parse_conf returns; and a step taken while no
\* Parse_conf is running, that is a Get, whatever it returns, changes neither
\* the store nor the parse state.
\* ------------------------------------------------------------------------
\* Every section of the store is in the store after the step, with at least
\* the keys it had.
StoreGrows ==
    \A n \in DOMAIN sections :
        /\ n \in DOMAIN sections'
        /\ DOMAIN heap[sections[n]].fields \subseteq DOMAIN heap'[sections'[n]].fields

GetChangesNothing ==
    (pc = "idle" /\ pc' = "idle") => UNCHANGED <<sections, heap, pstate>>

C17_StoreOnlyGrows == [][StoreGrows /\ GetChangesNothing]_vars

\* A lookup was made after a Parse_conf that stored a key.
C17_Witness ==
    /\ Returned
    /\ getResult # NoGet
    /\ \E h \in DOMAIN heap : DOMAIN heap[h].fields # {}

\* ------------------------------------------------------------------------
\* C18.  A key/value line with a non-empty key and nothing but whitespace
\* after the first "=" is handled without a runtime fault: in an active
\* section it is accepted and the empty string is stored for the key, and
\* outside any section it fails with the line-outside-section error.
\* ------------------------------------------------------------------------
HasEmptyValue(i) == Fact(i).hasKey /\ Fact(i).trimmedValue = <<>>

C18_EmptyValueHandled ==
    \A i \in Log : HasEmptyValue(i) =>
        /\ processed[i].res # "panic"
        /\ IF HdrIdx(i) # 0
           THEN /\ processed[i].res = "ok"
                /\ i = Len(processed) =>
                      /\ Fact(i).key \in DOMAIN heap[pstate.cur_sec].fields
                      /\ heap[pstate.cur_sec].fields[Fact(i).key] = <<>>
           ELSE processed[i].err =
                    ConfLineError(Fact(i).trimmed, "configuration line without section")

\* ------------------------------------------------------------------------
\* C19.  The parse state is consistent with the store: in every reachable
\* state in_sec is true exactly when cur_sec is not nil, and when in_sec is
\* true cur_sec is the very section registered in the store under cur_sec's
\* own name; in_sec is false at construction and, once true, never becomes
\* false again.
\* ------------------------------------------------------------------------
ParseStateConsistent ==
    /\ pstate.in_sec <=> pstate.cur_sec # Nil
    /\ pstate.in_sec =>
          /\ pstate.cur_sec \in DOMAIN heap
          /\ heap[pstate.cur_sec].name \in DOMAIN sections
          /\ sections[heap[pstate.cur_sec].name] = pstate.cur_sec

C19_ParseStateConsistent ==
    /\ ~pstate.in_sec
    /\ []ParseStateConsistent
    /\ [][pstate.in_sec => pstate'.in_sec]_vars

\* Two sections exist and the one created first is current again, after
\* Parse_conf ended with an error.
C19_Witness ==
    /\ Returned
    /\ result.kind = "ConfFileError"
    /\ pstate.in_sec
    /\ Cardinality(DOMAIN sections) = 2
    /\ pstate.cur_sec # Len(heap)

\* ------------------------------------------------------------------------
\* C20.  The empty-key error is unreachable.  The whole line is trimmed
\* before it is classified, so a line whose first "=" is at a position
\* greater than 0 has a non-blank first character, hence a non-empty key:
\* _parse_line returns "key cannot be empty" for no line, and every line
\* with an empty key is reported as an invalid line.
\* ------------------------------------------------------------------------
\* Nothing but whitespace stands before the first "=" of l.
HasEmptyKey(l) ==
    \E p \in 1..Len(l) : l[p] = "=" /\ \A q \in 1..(p - 1) : IsSpace(l[q])

C20_EmptyKeyUnreachable ==
    \A i \in Log :
        LET l == processed[i].line
            t == TrimSpace(l)
        IN  /\ processed[i].res = "err" => processed[i].err.error # "key cannot be empty"
            /\ Index(t, "=") > 0 =>
                  /\ ~IsSpace(t[1])
                  /\ TrimSpace(SubSeq(t, 1, Index(t, "="))) # <<>>
            /\ HasEmptyKey(l) =>
                  processed[i].err = ConfLineError(t, "invalid configuration line")

\* Parse_conf returned the invalid-line error for a line that has
\* whitespace and then "=" followed by more text.
C20_Witness ==
    /\ Returned
    /\ Len(processed) > 0
    /\ LET l == processed[Len(processed)].line
       IN  /\ HasEmptyKey(l)
           /\ Len(l) >= 3 /\ IsSpace(l[1]) /\ l[2] = "=" /\ ~IsSpace(l[3])
    /\ result.kind = "ConfFileError"
    /\ result.error.error = "invalid configuration line"

====
